---- MODULE Spec2Model ----
(***************************************************************************)
(* Model of group3/code/data.py: the CSV loader get_dataset, the primary   *)
(* container SentenceComplexityDataset, the wrapper                        *)
(* SentenceComplexityFinetuningDataset and the index-subset view           *)
(* (torch.utils.data.Subset) the wrapper may be given.                     *)
(*                                                                         *)
(* Numbers.  pandas hands the loader binary64 values (Python int / float); *)
(* torch.Tensor(list) stores them as binary32.  A number is the record     *)
(*   [neg, exp, hi, lo]  =  (-1)^neg * (hi * 2^29 + lo) * 2^(exp - 52)     *)
(* with hi the 24 leading bits of the 53-bit significand and lo the 29     *)
(* trailing ones; zero is hi = lo = 0.  A binary32 value has lo = 0.       *)
(*                                                                         *)
(* Python objects.  A dict returned by __getitem__ is an object on the     *)
(* heap; a caller holds a reference to it and dict.pop mutates it in       *)
(* place.  None is the record [tag |-> "None"].                            *)
(***************************************************************************)
EXTENDS Integers, Sequences, FiniteSets, TLC

VARIABLES
  load,       \* the last get_dataset / constructor call: its input and outcome
  container,  \* the primary container, None before a successful construction
  heap,       \* the live dicts handed out by __getitem__, by address
  held,       \* held[c]: the address of the dict consumer c holds, "" for none
  rec,        \* one earlier call, as observed when it returned
  again       \* the latest later item_at call on rec's object and index

vars == <<load, container, heap, held, rec, again>>

-----------------------------------------------------------------------------
(* Bounds of the model *)

MaxRows == 2
ModelMaxLength == 4

-----------------------------------------------------------------------------
(* Python None and optional values *)

None == [tag |-> "None"]
Some(v) == [tag |-> "Some", val |-> v]
IsNone(x) == x.tag = "None"

-----------------------------------------------------------------------------
(* Numbers: binary64 values of the CSV, binary32 values of a Tensor *)

SigHiMin == 8388608
SigHiLim == 16777216
SigLoHalf == 268435456

Dbl(neg, exp, hi, lo) == [neg |-> neg, exp |-> exp, hi |-> hi, lo |-> lo]

Zero == Dbl(FALSE, 0, 0, 0)
TwoPointFive == Dbl(FALSE, 1, 10485760, 0)
FourPointEight == Dbl(FALSE, 2, 10066329, 322122547)

RECURSIVE Pow2(_)
Pow2(k) == IF k = 0 THEN 1 ELSE 2 * Pow2(k - 1)

RECURSIVE Log2(_)
Log2(n) == IF n <= 1 THEN 0 ELSE 1 + Log2(n \div 2)

(* the binary64 value of an integer 0 <= n < 2^30 (exact) *)
FromInt(n) ==
  IF n = 0 THEN Zero
  ELSE LET e == Log2(n)
       IN IF e <= 23
          THEN Dbl(FALSE, e, n * Pow2(23 - e), 0)
          ELSE Dbl(FALSE, e, n \div Pow2(e - 23), (n % Pow2(e - 23)) * Pow2(52 - e))

(* binary64 -> binary32, round to nearest, ties to even (normal range) *)

Float32(x) ==
  IF x.hi = 0 THEN x
  ELSE LET up == x.lo > SigLoHalf \/ (x.lo = SigLoHalf /\ x.hi % 2 = 1)
           h == IF up THEN x.hi + 1 ELSE x.hi
       IN IF h = SigHiLim
          THEN Dbl(x.neg, x.exp + 1, SigHiMin, 0)
          ELSE Dbl(x.neg, x.exp, h, 0)

(* torch.Tensor(list): a 1-D float32 tensor of the list's values *)
Tensor(list) == [k \in 1..Len(list) |-> Float32(list[k])]

-----------------------------------------------------------------------------
(* Tokenization: BertTokenizer(sentences, padding=True, truncation=True)   *)

CLS == 101
SEP == 102
PAD == 0

Max(a, b) == IF a >= b THEN a ELSE b
Min(a, b) == IF a <= b THEN a ELSE b

(* a sentence is its sequence of word-piece ids *)
Encode(s) == <<CLS>> \o SubSeq(s, 1, Min(Len(s), ModelMaxLength - 2)) \o <<SEP>>

RECURSIVE Longest(_)
Longest(sentences) ==
  IF sentences = <<>> THEN 0
  ELSE Max(Len(Encode(Head(sentences))), Longest(Tail(sentences)))

PadTo(row, w, fill) == [k \in 1..w |-> IF k <= Len(row) THEN row[k] ELSE fill]

tokenize_sentences(sentences) ==
  LET w == Longest(sentences)
      n == Len(sentences)
  IN [input_ids |-> [r \in 1..n |-> PadTo(Encode(sentences[r]), w, PAD)],
      token_type_ids |-> [r \in 1..n |-> [k \in 1..w |-> 0]],
      attention_mask |->
        [r \in 1..n |-> [k \in 1..w |-> IF k <= Len(Encode(sentences[r])) THEN 1 ELSE 0]]]

-----------------------------------------------------------------------------
(* SentenceComplexityDataset *)

(* __init__: data is a dict with 'st', 'id' and possibly 'mos' *)
DatasetInit(data) ==
  [st |-> data.st,
   id |-> Tensor(data.id),
   mos |-> IF "mos" \in DOMAIN data THEN Some(Tensor(data.mos)) ELSE None]

(* __len__ *)
DatasetLen(c) == Len(c.id)

-----------------------------------------------------------------------------
(* get_dataset: df is the frame pd.read_csv returned, a function from the  *)
(* names of the columns present to the column's values                    *)

Columns == {"sent_id", "sentence", "MOS"}

(* as Truthy, for `if any(mos_targets):` - a list of zeros is falsy too *)
TruthyAny(mos_targets) ==
  ~IsNone(mos_targets) /\ \E k \in 1..Len(mos_targets.val) : mos_targets.val[k] /= Zero

(* `if mos_targets:`  - None and the empty list are falsy *)
Truthy(mos_targets) == ~IsNone(mos_targets) /\ Len(mos_targets.val) > 0

MosTargets(df) == IF "MOS" \in DOMAIN df THEN Some(df["MOS"]) ELSE None

(* as TestDataDict, keeping only the targets that are not zero *)
TestDataDictNonZero(sent_ids, sentences_tokenized, mos_targets) ==
  IF ~IsNone(mos_targets) /\ Len(mos_targets.val) > 0
  THEN [id |-> sent_ids, st |-> sentences_tokenized,
        mos |-> SelectSeq(mos_targets.val, LAMBDA m : m /= Zero)]
  ELSE [id |-> sent_ids, st |-> sentences_tokenized]

TestDataDict(sent_ids, sentences_tokenized, mos_targets) ==
  IF Truthy(mos_targets)
  THEN [id |-> sent_ids, st |-> sentences_tokenized, mos |-> mos_targets.val]
  ELSE [id |-> sent_ids, st |-> sentences_tokenized]

(* as get_dataset, reading MOS without the try / except *)
get_dataset_MosRequired(df, tokOk) ==
  IF Columns \ DOMAIN df /= {}
  THEN [status |-> "KeyError", tokCalls |-> 0, container |-> None]
  ELSE IF ~tokOk
  THEN [status |-> "TokenizerError", tokCalls |-> 1, container |-> None]
  ELSE [status |-> "ok", tokCalls |-> 1,
        container |-> Some(DatasetInit(
            TestDataDict(df["sent_id"], tokenize_sentences(df["sentence"]), MosTargets(df))))]

(* as get_dataset, tokenizing the sentences before sent_id is read *)
get_dataset_TokenizeFirst(df, tokOk) ==
  IF "sentence" \notin DOMAIN df
  THEN [status |-> "KeyError", tokCalls |-> 0, container |-> None]
  ELSE IF ~tokOk
  THEN [status |-> "TokenizerError", tokCalls |-> 1, container |-> None]
  ELSE IF "sent_id" \notin DOMAIN df
  THEN [status |-> "KeyError", tokCalls |-> 1, container |-> None]
  ELSE [status |-> "ok", tokCalls |-> 1,
        container |-> Some(DatasetInit(
            TestDataDict(df["sent_id"], tokenize_sentences(df["sentence"]), MosTargets(df))))]

(* tokOk: whether the tokenizer resolves its model and encodes the batch *)
get_dataset(df, tokOk) ==
  IF "sent_id" \notin DOMAIN df \/ "sentence" \notin DOMAIN df
  THEN [status |-> "KeyError", tokCalls |-> 0, container |-> None]
  ELSE IF ~tokOk
  THEN [status |-> "TokenizerError", tokCalls |-> 1, container |-> None]
  ELSE [status |-> "ok", tokCalls |-> 1,
        container |-> Some(DatasetInit(
            TestDataDict(df["sent_id"], tokenize_sentences(df["sentence"]), MosTargets(df))))]

-----------------------------------------------------------------------------
(* Indexing.  A Python index idx into a sequence of n elements: 0..n-1, or *)
(* -n..-1 counted from the end; anything else raises IndexError.          *)

(* as PyIndex, without the indexes counted from the end *)
PyIndexFromStart(idx, n) == IF 0 <= idx /\ idx < n THEN Some(idx) ELSE None

PyIndex(idx, n) ==
  IF 0 <= idx /\ idx < n THEN Some(idx)
  ELSE IF -n <= idx /\ idx < 0 THEN Some(idx + n)
  ELSE None

-----------------------------------------------------------------------------
(* The heap of dicts.  A call runs with the live dicts in h and puts a new *)
(* dict at the one address no caller holds.                                *)

Consumers == {"trainer", "evaluator"}
FreshAddr == "new"

EmptyHeap == [a \in {} |-> None]

Returned(h, a) == [status |-> "ok", heap |-> h, addr |-> a]
Raised(h, e) == [status |-> e, heap |-> h, addr |-> ""]

Store(h, a, d) == [b \in DOMAIN h \cup {a} |-> IF b = a THEN d ELSE h[b]]

(* as DatasetItem, with `if self.mos[idx]:` for `if self.mos is not None:` *)
DatasetItemIfScore(c, k) ==
  [key \in DOMAIN c.st \cup {"id"}
           \cup (IF IsNone(c.mos) \/ c.mos.val[k + 1] = Zero THEN {} ELSE {"label"}) |->
     IF key = "id" THEN c.id[k + 1]
     ELSE IF key = "label" THEN c.mos.val[k + 1]
     ELSE c.st[key][k + 1]]

(* SentenceComplexityDataset.__getitem__: a new dict per call *)
DatasetItem(c, k) ==
  [key \in DOMAIN c.st \cup {"id"} \cup (IF IsNone(c.mos) THEN {} ELSE {"label"}) |->
     IF key = "id" THEN c.id[k + 1]
     ELSE IF key = "label" THEN c.mos.val[k + 1]
     ELSE c.st[key][k + 1]]

(* as DatasetGetItem, handing out the dict of the row again while one is alive *)
DatasetGetItemShared(c, idx, h) ==
  IF \/ \E key \in DOMAIN c.st : IsNone(PyIndex(idx, Len(c.st[key])))
     \/ IsNone(PyIndex(idx, Len(c.id)))
     \/ ~IsNone(c.mos) /\ IsNone(PyIndex(idx, Len(c.mos.val)))
  THEN Raised(h, "IndexError")
  ELSE LET item == DatasetItem(c, PyIndex(idx, Len(c.id)).val)
           alive == { a \in DOMAIN h :
                        \A key \in DOMAIN h[a] : key \in DOMAIN item /\ h[a][key] = item[key] }
       IN IF alive /= {}
          THEN Returned(h, CHOOSE a \in alive : TRUE)
          ELSE Returned(Store(h, FreshAddr, item), FreshAddr)

DatasetGetItem(c, idx, h) ==
  IF \/ \E key \in DOMAIN c.st : IsNone(PyIndex(idx, Len(c.st[key])))
     \/ IsNone(PyIndex(idx, Len(c.id)))
     \/ ~IsNone(c.mos) /\ IsNone(PyIndex(idx, Len(c.mos.val)))
  THEN Raised(h, "IndexError")
  ELSE Returned(Store(h, FreshAddr, DatasetItem(c, PyIndex(idx, Len(c.id)).val)), FreshAddr)

-----------------------------------------------------------------------------
(* Objects offering __len__ and __getitem__.  A wrapper holds nothing but  *)
(* the reference to the object it wraps, so an object is written as the    *)
(* chain of wrappers that ends at the primary container.                   *)

Primary == [kind |-> "primary"]

(* torch.utils.data.Subset(dataset, indices) *)
Subset(dataset, indices) == [kind |-> "subset", dataset |-> dataset, indices |-> indices]

(* SentenceComplexityFinetuningDataset.__init__ *)
FinetuningInit(dataset) == [kind |-> "adapter", dataset |-> dataset]

RECURSIVE ObjLen(_, _)
ObjLen(o, c) ==
  IF o.kind = "primary" THEN DatasetLen(c)
  ELSE IF o.kind = "subset" THEN Len(o.indices)
  ELSE ObjLen(o.dataset, c)

(* as PopId, for item.pop('label', None) *)
PopLabel(r) ==
  [r EXCEPT !.heap = Store(r.heap, r.addr,
      [key \in DOMAIN r.heap[r.addr] \ {"label"} |-> r.heap[r.addr][key]])]

(* as PopId, for item.pop('id'): KeyError when the dict has no 'id' *)
PopIdStrict(r) ==
  IF "id" \in DOMAIN r.heap[r.addr]
  THEN [r EXCEPT !.heap = Store(r.heap, r.addr,
          [key \in DOMAIN r.heap[r.addr] \ {"id"} |-> r.heap[r.addr][key]])]
  ELSE Raised(r.heap, "KeyError")

(* item.pop('id', None) on the dict at r.addr *)
PopId(r) ==
  [r EXCEPT !.heap = Store(r.heap, r.addr,
      [key \in DOMAIN r.heap[r.addr] \ {"id"} |-> r.heap[r.addr][key]])]

(* SentenceComplexityFinetuningDataset.__getitem__, r the outcome of       *)
(* self.dataset[idx]                                                       *)
FinetuningGetItem(r) == IF r.status = "ok" THEN PopId(r) ELSE r

RECURSIVE ObjGetItem(_, _, _, _)
ObjGetItem(o, c, idx, h) ==
  IF o.kind = "primary" THEN DatasetGetItem(c, idx, h)
  ELSE IF o.kind = "subset"
  THEN LET k == PyIndex(idx, Len(o.indices))
       IN IF IsNone(k) THEN Raised(h, "IndexError")
          ELSE ObjGetItem(o.dataset, c, o.indices[k.val + 1], h)
  ELSE FinetuningGetItem(ObjGetItem(o.dataset, c, idx, h))

-----------------------------------------------------------------------------
(* Inputs *)

(* sent_id columns: 1, 2, ...  and  2^24 + 1, 2^24 + 2, ... *)
IdColumns(n) ==
  { [k \in 1..n |-> FromInt(k)], [k \in 1..n |-> FromInt(16777216 + k)] }

(* sentence columns, as word-piece ids *)
SentenceColumns(n) ==
  { [k \in 1..n |-> <<7>>],
    [k \in 1..n |-> IF k % 2 = 1 THEN <<7>> ELSE <<7, 8, 9>>] }

(* MOS columns: all zero, and 2.5, 4.8, 2.5, ... *)
MosColumns(n) ==
  { [k \in 1..n |-> Zero],
    [k \in 1..n |-> IF k % 2 = 1 THEN TwoPointFive ELSE FourPointEight] }

Frames ==
  { [col \in cols |-> IF col = "sent_id" THEN ids
                      ELSE IF col = "sentence" THEN ss ELSE ms] :
      <<cols, ids, ss, ms>> \in
        UNION { (SUBSET Columns) \X IdColumns(n) \X SentenceColumns(n) \X MosColumns(n) :
                n \in 0..MaxRows } }

(* dicts a caller may give the constructor: parallel lists *)
DataDicts ==
  UNION { { [id |-> ids, st |-> tokenize_sentences(ss)] : 
              <<ids, ss>> \in IdColumns(n) \X SentenceColumns(n) }
          \cup
          { [id |-> ids, st |-> tokenize_sentences(ss), mos |-> ms] :
              <<ids, ss, ms>> \in IdColumns(n) \X SentenceColumns(n) \X MosColumns(n) } :
          n \in 0..MaxRows }

(* the usual frames: sent_id 1..n, sentences of two lengths, MOS 2.5, 4.8, *)
(* ... or no MOS column                                                    *)
PlainFrames ==
  { df \in Frames :
      /\ {"sent_id", "sentence"} \subseteq DOMAIN df
      /\ df["sent_id"] = [k \in 1..Len(df["sent_id"]) |-> FromInt(k)]
      /\ \A k \in 1..Len(df["sentence"]) : k % 2 = 0 => df["sentence"][k] = <<7, 8, 9>>
      /\ "MOS" \in DOMAIN df => \A k \in 1..Len(df["MOS"]) : df["MOS"][k] /= Zero }

(* the index list of a split of m elements: m-1, m-3, ... *)
SplitIndices(m) == [k \in 1..((m + 1) \div 2) |-> m + 1 - 2 * k]

(* the index list of a shuffle of m elements: m-1, m-2, ..., 0 *)
ReverseIndices(m) == [k \in 1..m |-> m - k]

(* the primary container, a split of it and a shuffle of it *)
Views(c) ==
  {Primary, Subset(Primary, SplitIndices(DatasetLen(c))),
            Subset(Primary, ReverseIndices(DatasetLen(c)))}

(* the primary container and the adapter over it *)
LoaderObjects == {Primary, FinetuningInit(Primary)}

(* the views, the adapters over them, and the adapters over those *)
Objects(c) ==
  Views(c) \cup { FinetuningInit(v) : v \in Views(c) }
           \cup { FinetuningInit(FinetuningInit(v)) : v \in Views(c) }

(* indexes a caller tries on an object of m elements *)
Indexes(m) == (-(m + 1))..m

-----------------------------------------------------------------------------
(* State machine *)

NoCall == [op |-> "none", obj |-> Primary, idx |-> 0, status |-> "none", value |-> None, len |-> 0]
NoLoad == [status |-> "none", tokCalls |-> 0, input |-> None]

Init ==
  /\ load = NoLoad
  /\ container = None
  /\ heap = EmptyHeap
  /\ held = [c \in Consumers |-> ""]
  /\ rec = NoCall
  /\ again = None

(* get_dataset(path, model) on a CSV that parses to df *)
GetDataset(df, tokOk) ==
  /\ IsNone(container)
  /\ LET out == get_dataset(df, tokOk)
     IN /\ load' = [status |-> out.status, tokCalls |-> out.tokCalls,
                    input |-> [call |-> "get_dataset", df |-> df]]
        /\ container' = out.container
  /\ UNCHANGED <<heap, held, rec, again>>

(* SentenceComplexityDataset(data) called directly *)
Construct(data) ==
  /\ IsNone(container)
  /\ load' = [status |-> "ok", tokCalls |-> 0,
              input |-> [call |-> "constructor", data |-> data]]
  /\ container' = Some(DatasetInit(data))
  /\ UNCHANGED <<heap, held, rec, again>>

(* consumer c runs  item = o[idx] ; the dicts no consumer holds any more   *)
(* are collected, and a live dict is named by the first consumer holding it *)
ItemAt(c, o, idx, record) ==
  /\ ~IsNone(container)
  /\ record => rec.op = "none"
  /\ \E r \in {ObjGetItem(o, container.val, idx, heap)} :
       LET ok == r.status = "ok"
           outcome == [status |-> r.status,
                       value |-> IF ok THEN Some(r.heap[r.addr]) ELSE None]
           held1 == IF ok THEN [held EXCEPT ![c] = r.addr] ELSE held
           name(a) == CHOOSE k \in Consumers : held1[k] = a
       IN /\ held' = [k \in Consumers |-> IF held1[k] = "" THEN "" ELSE name(held1[k])]
          /\ heap' = [b \in {held'[k] : k \in Consumers} \ {""} |-> r.heap[held1[b]]]
          /\ rec' = IF record
                    THEN [op |-> "item_at", obj |-> o, idx |-> idx, status |-> r.status,
                          value |-> outcome.value, len |-> 0]
                    ELSE rec
          /\ again' = IF ~record /\ rec.op = "item_at" /\ rec.obj = o /\ rec.idx = idx
                      THEN Some(outcome)
                      ELSE again
  /\ UNCHANGED <<load, container>>

(* len(o) *)
LengthOf(o, record) ==
  /\ ~IsNone(container)
  /\ record => rec.op = "none"
  /\ rec' = IF record
            THEN [op |-> "length", obj |-> o, idx |-> 0, status |-> "ok",
                  value |-> None, len |-> ObjLen(o, container.val)]
            ELSE rec
  /\ UNCHANGED <<load, container, heap, held, again>>

Load(frames) ==
  /\ IsNone(container)
  /\ \E df \in frames, tokOk \in BOOLEAN : GetDataset(df, tokOk)

Build(dicts) ==
  /\ IsNone(container)
  /\ \E data \in dicts : Construct(data)

Recording == IF rec.op = "none" THEN BOOLEAN ELSE {FALSE}

Access(consumers, objects) ==
  \E o \in objects, c \in consumers :
    \E idx \in Indexes(ObjLen(o, container.val)), record \in Recording :
      ItemAt(c, o, idx, record)

Lengths(objects) ==
  \E o \in objects, record \in Recording : LengthOf(o, record)

(* the loader and the constructor on every input, one consumer *)
Next ==
  \/ Load(Frames)
  \/ Build(DataDicts)
  \/ ~IsNone(container) /\ Access({"trainer"}, LoaderObjects)
  \/ ~IsNone(container) /\ Lengths(LoaderObjects)

Spec == Init /\ [][Next]_vars

(* the usual frames, every object, every consumer *)
NextAccess ==
  \/ Load(PlainFrames)
  \/ ~IsNone(container) /\ Access(Consumers, Objects(container.val))
  \/ ~IsNone(container) /\ Lengths(Objects(container.val))

SpecAccess == Init /\ [][NextAccess]_vars

-----------------------------------------------------------------------------
(* Properties *)

LoaderCalled == load.status /= "none" /\ load.input.call = "get_dataset"
LoaderReturned == load.status = "ok" /\ load.input.call = "get_dataset"
ConstructorCalled == load.status = "ok" /\ load.input.call = "constructor"
Frame == load.input.df
Rows == Len(Frame["sent_id"])

ItemCalled(o) == rec.op = "item_at" /\ rec.obj = o
LengthCalled(o) == rec.op = "length" /\ rec.obj = o
ItemReturned(o) == ItemCalled(o) /\ rec.status = "ok"
Item == rec.value.val

(* what o[idx] gives when nothing else is alive: its status and its dict *)
Outcome(o, idx) ==
  LET r == ObjGetItem(o, container.val, idx, EmptyHeap)
  IN [status |-> r.status,
      value |-> IF r.status = "ok" THEN Some(r.heap[r.addr]) ELSE None]

Without(d, key) == [k \in DOMAIN d \ {key} |-> d[k]]

(* C1: a CSV of n rows with sent_id, sentence and MOS gives a container of *)
(* length n whose item i has id = row i's sent_id and label = row i's MOS. *)
C1_ItemsEqualRows ==
  (LoaderReturned /\ Columns \subseteq DOMAIN Frame) =>
    /\ LengthCalled(Primary) => rec.len = Rows
    /\ (ItemCalled(Primary) /\ rec.idx \in 0..(Rows - 1)) =>
         /\ rec.status = "ok"
         /\ Item["id"] = Frame["sent_id"][rec.idx + 1]
         /\ Item["label"] = Frame["MOS"][rec.idx + 1]

(* C2: a CSV with sent_id and sentence but no MOS column is no error of    *)
(* the loader: the container has no targets, and every item of a valid     *)
(* index is returned without a 'label' key.                                *)
C2_NoMosNoLabel ==
  (LoaderCalled /\ DOMAIN Frame = {"sent_id", "sentence"}) =>
    /\ load.status /= "KeyError"
    /\ load.status = "ok" =>
         /\ IsNone(container.val.mos)
         /\ (ItemCalled(Primary) /\ rec.idx \in 0..(Rows - 1)) =>
              rec.status = "ok" /\ "label" \notin DOMAIN Item

C2_Witness ==
  /\ LoaderReturned /\ DOMAIN Frame = {"sent_id", "sentence"} /\ Rows = MaxRows
  /\ ItemReturned(Primary) /\ rec.idx = MaxRows - 1

(* C3: the adapter over a primary container has the container's length,    *)
(* and its item at a valid index is the container's item without 'id',     *)
(* every other key and value unchanged.                                    *)
C3_AdapterDropsId ==
  ~IsNone(container) =>
    /\ LengthCalled(FinetuningInit(Primary)) => rec.len = DatasetLen(container.val)
    /\ (ItemCalled(FinetuningInit(Primary)) /\ rec.idx \in 0..(DatasetLen(container.val) - 1)) =>
         /\ rec.status = "ok"
         /\ Outcome(Primary, rec.idx).status = "ok"
         /\ Item = Without(Outcome(Primary, rec.idx).value.val, "id")

C3_Witness ==
  /\ ItemReturned(FinetuningInit(Primary)) /\ rec.idx = 1
  /\ "label" \in DOMAIN Item

IsContainerType(o) == o.kind \in {"primary", "adapter"}

C5_SameResultAgain ==
  ~IsNone(again) => (again.val.status = rec.status /\ again.val.value = rec.value)

C5_Witness ==
  /\ ~IsNone(again) /\ ItemReturned(Primary) /\ again.val.status = "ok"
  /\ held["trainer"] /= "" /\ held["evaluator"] /= ""
  /\ "id" \notin DOMAIN heap[held["evaluator"]]
  /\ heap[held["trainer"]] = Item

(* C6: a CSV without sent_id or without sentence makes get_dataset fail    *)
(* with the missing-column error before the tokenizer is called, and no    *)
(* container is returned.                                                  *)
C6_MissingColumnFails ==
  (LoaderCalled /\ {"sent_id", "sentence"} \ DOMAIN Frame /= {}) =>
    load.status = "KeyError" /\ load.tokCalls = 0 /\ IsNone(container)

C6_Witness ==
  LoaderCalled /\ DOMAIN Frame = {"sentence", "MOS"} /\ Len(Frame["MOS"]) = MaxRows
  /\ load.status = "KeyError"

(* C7: the returned container has targets exactly when the CSV has a MOS   *)
(* column of at least one row, whatever its values.                        *)
C7_TargetsIffMosRows ==
  LoaderReturned =>
    (~IsNone(container.val.mos) <=> ("MOS" \in DOMAIN Frame /\ Len(Frame["MOS"]) >= 1))

C7_Witness ==
  /\ LoaderReturned /\ "MOS" \in DOMAIN Frame /\ Rows = MaxRows
  /\ \A k \in 1..Rows : Frame["MOS"][k] = Zero
  /\ ~IsNone(container.val.mos)

(* the dict the container was constructed from *)
Mapping ==
  IF load.input.call = "constructor" THEN load.input.data
  ELSE TestDataDict(Frame["sent_id"], tokenize_sentences(Frame["sentence"]), MosTargets(Frame))

(* C8: 'label' is per container, all or nothing: every item of a valid     *)
(* index has it if the dict given at construction has the target key, and  *)
(* none has it if the key is absent (construction then leaves the targets  *)
(* unset).                                                                 *)
C8_LabelAllOrNothing ==
  ~IsNone(container) =>
    /\ "mos" \notin DOMAIN Mapping => IsNone(container.val.mos)
    /\ (ItemCalled(Primary) /\ rec.idx \in 0..(DatasetLen(container.val) - 1)) =>
         /\ rec.status = "ok"
         /\ "label" \in DOMAIN Item <=> "mos" \in DOMAIN Mapping

C8_Witness ==
  /\ ConstructorCalled /\ "mos" \in DOMAIN Mapping
  /\ ItemReturned(Primary) /\ rec.idx = 0 /\ Item["label"] = Zero

(* C9: whenever the wrapped object's item_at(i) succeeds, so does the      *)
(* adapter's, also when the wrapped item has no 'id', and the result has   *)
(* no 'id'; an adapter over an adapter has the length and the items of     *)
(* the inner adapter.                                                      *)
C9_AdapterOverAnything ==
  (rec.op /= "none" /\ rec.obj.kind = "adapter") =>
    LET inner == rec.obj.dataset
    IN /\ (rec.op = "item_at" /\ Outcome(inner, rec.idx).status = "ok") =>
            rec.status = "ok" /\ "id" \notin DOMAIN Item
       /\ (rec.op = "item_at" /\ inner.kind = "adapter") =>
            rec.status = Outcome(inner, rec.idx).status /\ rec.value = Outcome(inner, rec.idx).value
       /\ (rec.op = "length" /\ inner.kind = "adapter") => rec.len = ObjLen(inner, container.val)

C9_Witness ==
  /\ rec.op = "item_at" /\ rec.status = "ok"
  /\ rec.obj = FinetuningInit(FinetuningInit(Subset(Primary, SplitIndices(MaxRows))))
  /\ "label" \in DOMAIN Item

(* C10: in a container get_dataset returned, the identifiers, the rows of  *)
(* every field of the tokenized batch and the targets, when present, are   *)
(* equally many, also after length() and item_at() calls.                  *)
C10_ParallelLengths ==
  LoaderReturned =>
    LET c == container.val
    IN /\ \A key \in DOMAIN c.st : Len(c.st[key]) = Len(c.id)
       /\ ~IsNone(c.mos) => Len(c.mos.val) = Len(c.id)

C10_Witness ==
  /\ LoaderReturned /\ ~IsNone(container.val.mos) /\ Len(container.val.id) = MaxRows
  /\ container.val.mos.val[1] = Zero
  /\ ItemReturned(FinetuningInit(Primary)) /\ held["trainer"] /= ""

====
